---- MODULE Spec2Model ----
(***************************************************************************)
(* QLED-RLopt: the episodic environment QLEDRLEnv (rl_env.py), its         *)
(* ParameterSpace (parameter_space.py), the SurrogateSim evaluator         *)
(* (surrogate_sim.py) and the reward shaper compute_reward                 *)
(* (reward_function.py).                                                   *)
(*                                                                         *)
(* Numbers.  Every real quantity of the program is held in fixed point,    *)
(* as an integer count of 1/Scale (hundredths); a product or quotient is   *)
(* rounded down to the grid.  exp, tanh, log and sqrt are computed by      *)
(* monotone integer approximations (ExpNeg, Tanh, Log2c, ISqrt).           *)
(* A Python float that compute_reward reads from its metrics mapping is a  *)
(* record [t, h, v]: t is the kind of object ("num" a finite float, "None",*)
(* "nan", "inf", "ninf", "str" a non-numeric object), and a finite float   *)
(* has the value h * 1e200 + v, both in hundredths: h # 0 is a finite      *)
(* float so large that its square leaves the range of a double.            *)
(***************************************************************************)
EXTENDS Integers, Sequences, FiniteSets, TLC

\* ------------------------------------------------------------------ bounds
MaxSteps == 2
ExtraSteps == 1
MaxDraws == 2

\* ----------------------------------------------------------- fixed point
Scale == 10 * 10

Min2(a, b) == IF a <= b THEN a ELSE b
Max2(a, b) == IF a >= b THEN a ELSE b
Abs(a) == IF a < 0 THEN -a ELSE a

\* np.clip(v, lo, hi) / min(max(v, lo), hi) on one component
Clip(v, lo, hi) == Min2(Max2(v, lo), hi)

\* floor of the square root of n >= 0, by bisection on [lo, hi)
RECURSIVE ISqrtIn(_, _, _)
ISqrtIn(n, lo, hi) ==
    IF hi - lo <= 1 THEN lo
    ELSE LET mid == (lo + hi) \div 2
         IN  IF mid * mid <= n THEN ISqrtIn(n, mid, hi) ELSE ISqrtIn(n, lo, mid)
ISqrt(n) == IF n <= 0 THEN 0 ELSE ISqrtIn(n, 0, 46340)

\* sqrt of a fixed-point value: sqrt(v/Scale) * Scale
SqrtC(v) == ISqrt(v * Scale)

\* exp(-z) for z >= 0 (fixed point in, fixed point out), by the reciprocal
\* of the cubic Taylor polynomial of exp(z); exp(-10) and below round to 0
ExpNeg(z) ==
    LET c == Clip(z, 0, 1000)
    IN  100000000 \div (1000000 + 10000 * c + 50 * c * c + (c * c * c) \div 6)

\* 1 / (1 + exp(-x))
Sigmoid(x) ==
    IF x >= 0 THEN (Scale * Scale) \div (Scale + ExpNeg(x))
    ELSE (Scale * ExpNeg(-x)) \div (Scale + ExpNeg(-x))

\* tanh(z), odd, saturating at |z| >= 3, by z(27+z^2)/(27+9z^2)
TanhPos(z) ==
    LET c == Min2(z, 300)
    IN  (c * (270000 + c * c)) \div (270000 + 9 * c * c)
Tanh(z) == IF z >= 0 THEN TanhPos(z) ELSE -TanhPos(-z)

\* floor(log2(n)) for an integer n >= 1
RECURSIVE ILog2(_)
ILog2(n) == IF n < 2 THEN 0 ELSE 1 + ILog2(n \div 2)

RECURSIVE Pow2(_)
Pow2(k) == IF k = 0 THEN 1 ELSE 2 * Pow2(k - 1)

\* log2(y) for a fixed-point y >= 1.0: the exponent plus a linear mantissa
Log2c(y) ==
    LET k == ILog2(y \div Scale)
    IN  Scale * k + ((y \div Pow2(k)) - Scale)

\* math.log1p(x) for a fixed-point x >= 0
Ln1p(x) == (Log2c(Scale + x) * 6931) \div 10000

\* --------------------------------------------------------- float objects
\* a finite float h * 1e200 + v; h = 0 for every value the environment
\* itself produces
Float(hh, vv) == [t |-> "num", h |-> hh, v |-> vv]
Num(vv) == Float(0, vv)
NoneVal == [t |-> "None", h |-> 0, v |-> 0]
NaNVal == [t |-> "nan", h |-> 0, v |-> 0]
PosInf == [t |-> "inf", h |-> 0, v |-> 0]
NegInf == [t |-> "ninf", h |-> 0, v |-> 0]
NonNumeric == [t |-> "str", h |-> 0, v |-> 0]

\* a > c for a finite float a and a small constant c
FGt(a, c) == a.h > 0 \/ (a.h = 0 /\ a.v > c)
FGe(a, c) == a.h > 0 \/ (a.h = 0 /\ a.v >= c)
\* a < c
FLt(a, c) == a.h < 0 \/ (a.h = 0 /\ a.v < c)

FAdd(a, b) == Float(a.h + b.h, a.v + b.v)
FSub(a, b) == Float(a.h - b.h, a.v - b.v)
\* w * a and a / d for constants w, d > 0 given in hundredths
FScale(w, a) == Float((w * a.h) \div Scale, (w * a.v) \div Scale)
FDiv(a, d) == Float((a.h * Scale) \div d, (a.v * Scale) \div d)
\* max(0.0, a)
FMax0(a) == IF FLt(a, 0) THEN Num(0) ELSE a

\* ------------------------------------------------------- ParameterSpace
\* ParamDef(name, low, high), bounds in hundredths of the physical unit
ParamDef(n, lo, hi) == [name |-> n, low |-> lo, high |-> hi]

\* ParameterSpace.__init__: self.params
DefaultParams ==
    << ParamDef("t_HTL_nm", 1000, 6000),
       ParamDef("t_EML_nm", 1000, 4000),
       ParamDef("t_ETL_nm", 1000, 6000),
       ParamDef("phi_HTL_eV", 480, 560),
       ParamDef("phi_ETL_eV", 380, 450),
       ParamDef("p_doping_HTL", 0, 30),
       ParamDef("n_doping_ETL", 0, 30),
       ParamDef("ps_radius_nm", 5000, 25000),
       ParamDef("ps_fill_frac", 0, 50),
       ParamDef("sl_thickness_nm", 800, 3000),
       ParamDef("sl_gap_um", 30, 500),
       ParamDef("qd_coverage", 20, 100),
       ParamDef("V_drive", 200, 600) >>

\* A ParameterSpace handed to the environment whose t_HTL_nm range was
\* widened to [10, 210] nm: the one space here in which the stack can pass
\* the 180 nm ceiling by more than the hard-invalid threshold.
WideParams ==
    [DefaultParams EXCEPT ![1] = ParamDef("t_HTL_nm", 1000, 21000)]

\* self.names, self.dim
NamesOf(ps) == [i \in 1..Len(ps) |-> ps[i].name]
NameSet(ps) == {ps[i].name : i \in 1..Len(ps)}
Dim(ps) == Len(ps)

\* index of a declared name
IndexOf(ps, n) == CHOOSE i \in 1..Len(ps) : ps[i].name = n

\* rng.uniform(-1.0, 1.0, size=(dim,)) on a generator seeded with `seed`
\* that has already produced n vectors: a fixed function of (seed, n), each
\* component in [-1, 1)
SampleComponent(seed, n, i) ==
    ((seed * 89 + n * 57 + i * 37 + i * i * 11) % (2 * Scale)) - Scale
sample_normalized(ps, rng) ==
    [i \in 1..Dim(ps) |-> SampleComponent(rng.seed, rng.n, i)]

\* to_real without np.clip
to_real_unclipped(ps, x_norm) ==
    [n \in NameSet(ps) |->
        LET i == IndexOf(ps, n)
        IN  ps[i].low + ((x_norm[i] + Scale) * (ps[i].high - ps[i].low)) \div (2 * Scale)]

\* to_real: clip to [-1, 1], then low + ((x + 1) / 2) * (high - low)
to_real(ps, x_norm) ==
    [n \in NameSet(ps) |->
        LET i == IndexOf(ps, n)
            xi == Clip(x_norm[i], -Scale, Scale)
        IN  ps[i].low + ((xi + Scale) * (ps[i].high - ps[i].low)) \div (2 * Scale)]

\* the first declared name that params_dict lacks, "" when there is none
RECURSIVE FirstMissing(_, _, _)
FirstMissing(ps, keys, i) ==
    IF i > Len(ps) THEN ""
    ELSE IF ps[i].name \notin keys THEN ps[i].name
    ELSE FirstMissing(ps, keys, i + 1)

\* one component of to_normalized, left in [0, 1]: the step to [-1, 1] dropped
NormalizeToUnit(p, v) ==
    LET c == Min2(Max2(v, p.low), p.high)
    IN  ((c - p.low) * Scale) \div (p.high - p.low)

\* one component of to_normalized: clamp into [low, high], map to [-1, 1]
NormalizeOne(p, v) ==
    LET c == Min2(Max2(v, p.low), p.high)
    IN  (2 * (c - p.low) * Scale) \div (p.high - p.low) - Scale

\* to_normalized reading with params_dict.get(name, low): never raises
to_normalized_defaulting(ps, params_dict) ==
    [raised |-> "", key |-> "",
     x |-> [i \in 1..Dim(ps) |->
              NormalizeOne(ps[i], IF ps[i].name \in DOMAIN params_dict
                                  THEN params_dict[ps[i].name] ELSE ps[i].low)]]

\* to_normalized: params_dict[p.name] raises KeyError at the first declared
\* name that is absent; otherwise the normalized vector
to_normalized(ps, params_dict) ==
    LET miss == FirstMissing(ps, DOMAIN params_dict, 1)
    IN  IF miss # ""
        THEN [raised |-> "KeyError", key |-> miss, x |-> << >>]
        ELSE [raised |-> "", key |-> "",
              x |-> [i \in 1..Dim(ps) |-> NormalizeOne(ps[i], params_dict[ps[i].name])]]

\* constraint_violation with the stack ceiling at 18 nm in place of 180 nm
constraint_violation_ceiling_18(params) ==
    [c \in {"t_total_over_180nm", "ps_fill_frac_over_0p45",
            "sl_gap_under_0p5um", "V_drive_over_5p5V"} |->
        CASE c = "t_total_over_180nm" ->
                Num(Max2(0, params["t_HTL_nm"] + params["t_EML_nm"]
                               + params["t_ETL_nm"] - 1800))
          [] c = "ps_fill_frac_over_0p45" -> Num(Max2(0, params["ps_fill_frac"] - 45))
          [] c = "sl_gap_under_0p5um" -> Num(Max2(0, 50 - params["sl_gap_um"]))
          [] OTHER -> Num(Max2(0, params["V_drive"] - 550))]

\* constraint_violation: four named severities, each max(0, excess)
constraint_violation(params) ==
    [c \in {"t_total_over_180nm", "ps_fill_frac_over_0p45",
            "sl_gap_under_0p5um", "V_drive_over_5p5V"} |->
        CASE c = "t_total_over_180nm" ->
                Num(Max2(0, params["t_HTL_nm"] + params["t_EML_nm"]
                               + params["t_ETL_nm"] - 18000))
          [] c = "ps_fill_frac_over_0p45" -> Num(Max2(0, params["ps_fill_frac"] - 45))
          [] c = "sl_gap_under_0p5um" -> Num(Max2(0, 50 - params["sl_gap_um"]))
          [] OTHER -> Num(Max2(0, params["V_drive"] - 550))]

\* the hard-invalid threshold 20.0
HardThreshold == 2000

\* a violation handed to is_hard_invalid / compute_reward: a dict of
\* severities (isinstance(violation, dict)) or a bare scalar
DictViolation(d) == [isdict |-> TRUE, entries |-> d, scalar |-> Num(0)]
ScalarViolation(s) == [isdict |-> FALSE, entries |-> << >>, scalar |-> s]

\* float(val) > 20.0 on a float object: nan compares false, +inf true
ExceedsHard(val) ==
    CASE val.t = "num" -> FGt(val, HardThreshold)
      [] val.t = "inf" -> TRUE
      [] OTHER -> FALSE

\* is_hard_invalid with >= in place of >
is_hard_invalid_ge(violation) ==
    IF violation.isdict
    THEN \E k \in DOMAIN violation.entries :
            violation.entries[k].t = "num" /\ FGe(violation.entries[k], HardThreshold)
    ELSE violation.scalar.t = "num" /\ FGe(violation.scalar, HardThreshold)

\* is_hard_invalid: any entry > 20.0 (dict), or the scalar > 20.0
is_hard_invalid(violation) ==
    IF violation.isdict
    THEN \E k \in DOMAIN violation.entries : ExceedsHard(violation.entries[k])
    ELSE ExceedsHard(violation.scalar)

\* metrics_to_vec: metrics_dim = 0, the empty vector
metrics_to_vec(metrics) == << >>

\* --------------------------------------------------------- SurrogateSim
\* SurrogateSim.evaluate(params): the metrics dict, every entry a float
evaluate(params) ==
    LET t_eml == params["t_EML_nm"]
        phi_h == params["phi_HTL_eV"]
        phi_e == params["phi_ETL_eV"]
        dop == params["p_doping_HTL"] + params["n_doping_ETL"]
        ps_r == params["ps_radius_nm"]
        ps_ff == params["ps_fill_frac"]
        sl_t == params["sl_thickness_nm"]
        sl_gap == params["sl_gap_um"]
        qd_cov == params["qd_coverage"]
        V == params["V_drive"]
        \* injection balance
        barrier_mismatch == Abs((phi_h - 520) - (410 - phi_e))
        inj_balance == ExpNeg((barrier_mismatch * barrier_mismatch) \div 6)
        inj_boost == Sigmoid(8 * (dop - 15))
        \* recombination overlap, peak near 18 nm
        overlap == ExpNeg(((t_eml - 1800) * (t_eml - 1800)) \div 9800)
        \* outcoupling
        mie_gain == Scale + (60 * ExpNeg(((ps_r - 12000) * (ps_r - 12000)) \div 605000)) \div Scale
        cov_gain == Scale + (70 * Clip((ps_ff * Scale) \div 30, 0, Scale)) \div Scale
        sl_gain == Scale + (40 * ExpNeg(((sl_t - 1500) * (sl_t - 1500)) \div 7200)) \div Scale
        gap_gain == Scale + (30 * ExpNeg(((sl_gap - 120) * (sl_gap - 120)) \div 128)) \div Scale
        qd_gain == 60 + (40 * qd_cov) \div Scale
        oc1 == (mie_gain * cov_gain) \div Scale
        oc2 == (oc1 * sl_gain) \div Scale
        oc3 == (oc2 * gap_gain) \div Scale
        outcoupling == (oc3 * qd_gain) \div Scale
        \* brightness
        drive == Max2(0, V - 220)
        V_term == Scale - ExpNeg((drive * Scale) \div 110)
        f_inj == 55 + (45 * inj_boost) \div Scale
        f_ov == 55 + (45 * overlap) \div Scale
        brightness == 25000 + (16 * V_term * f_inj * f_ov) \div Scale
        \* leakage
        leakage == Max2(0, 5 + (55 * dop) \div Scale + (45 * (Scale - inj_balance)) \div Scale
                              + (30 * Max2(0, ps_ff - 30)) \div Scale)
        \* auger and droop
        b14 == brightness \div 1400
        auger_rate == (((b14 * b14) \div Scale) * Max2(0, V - 320)) \div Scale
        b16 == brightness \div 1600
        droop == Clip((Scale * Scale) \div (Scale + (b16 * b16) \div Scale
                                                  + (60 * auger_rate) \div Scale), 5, Scale)
        \* soft-constraint penalty
        penalty == (IF ps_ff > 45 THEN (ps_ff - 45) * 6 ELSE 0)
                   + (IF t_eml < 1200 THEN (1200 - t_eml) \div 4 ELSE 0)
                   + (IF sl_gap < 50 THEN ((50 - sl_gap) * 5) \div 2 ELSE 0)
        \* EQE
        e1 == (22 * inj_balance * f_inj) \div Scale
        e2 == (e1 * overlap) \div Scale
        e3 == (e2 * outcoupling) \div Scale
        eqe_raw == (e3 * droop) \div Scale
        eqe == 40 * Tanh(eqe_raw \div 40)
        \* lifetime
        vx == Max2(0, V - 300)
        lifetime == Clip(20000000 \div (Scale + (250 * leakage) \div Scale
                                              + (350 * auger_rate) \div Scale
                                              + (20 * ((vx * vx) \div Scale)) \div Scale
                                              + (80 * dop) \div Scale),
                         5000, 200000)
    IN  [k \in {"EQE", "recomb_overlap", "penalty", "inj_balance", "outcoupling",
                "droop", "brightness", "leakage", "auger_rate", "lifetime"} |->
            CASE k = "EQE" -> Num(eqe)
              [] k = "recomb_overlap" -> Num(overlap)
              [] k = "penalty" -> Num(penalty)
              [] k = "inj_balance" -> Num(inj_balance)
              [] k = "outcoupling" -> Num(outcoupling)
              [] k = "droop" -> Num(droop)
              [] k = "brightness" -> Num(brightness)
              [] k = "leakage" -> Num(leakage)
              [] k = "auger_rate" -> Num(auger_rate)
              [] OTHER -> Num(lifetime)]

\* -------------------------------------------------------- QLEDSimulator
\* sum of f over the rows of a table column
RECURSIVE SumOver(_, _)
SumOver(col, i) == IF i = 0 THEN 0 ELSE col[i] + SumOver(col, i - 1)

\* parse_comsol_csv on a file that holds the required columns; the file is
\* the record of its columns, each a sequence of whole numbers
parse_comsol_csv(file) ==
    LET rows == Len(file.n_electron)
        idx == 1..rows
        ne == file.n_electron
        nh == file.n_hole
        dot == SumOver([i \in idx |-> ne[i] * nh[i]], rows)
        ne2 == SumOver([i \in idx |-> ne[i] * ne[i]], rows)
        nh2 == SumOver([i \in idx |-> nh[i] * nh[i]], rows)
        overlap == IF (\A i \in idx : ne[i] = 0) \/ (\A i \in idx : nh[i] = 0) THEN 0
                   ELSE (dot * Scale) \div ISqrt(ne2 * nh2)
        total_rad == SumOver(file.R_rad, rows)
        total_nrad == SumOver(file.R_nrad, rows)
        total == total_rad + total_nrad
        eqe_proxy == IF total = 0 THEN 0 ELSE (total_rad * Scale) \div total
        penalty == IF total = 0 THEN 0 ELSE (total_nrad * 20) \div total
    IN  [carrier_map |-> [n_electron |-> ne, n_hole |-> nh],
         recomb_profile |-> [R_rad |-> file.R_rad, R_nrad |-> file.R_nrad],
         EQE |-> Num(eqe_proxy), recomb_overlap |-> Num(overlap), penalty |-> Num(penalty)]

\* the bias penalty without max(0.0, .)
ThicknessPenaltySigned(bias) == ((bias - 350) * 2) \div Scale

\* thickness_penalty = max(0.0, bias - 3.5) * 0.02
ThicknessPenalty(bias) == (Max2(0, bias - 350) * 2) \div Scale

\* QLEDSimulator._mock_physics(design)
mock_physics(design) ==
    LET ZnO_ratio == design["ZnO_ratio"]
        QD_layers == design["QD_layers"]
        ht == design["HTL_thickness_nm"]
        zt == design["ZnO_thickness_nm"]
        bias == design["bias_V"]
        balance_factor == ExpNeg(Abs(ZnO_ratio - 50) * 4)
        layer_factor == IF QD_layers = 2 THEN 90 ELSE 80
        thickness_penalty == ThicknessPenalty(bias)
        eqe == 12 + (8 * ((balance_factor * layer_factor) \div Scale)) \div Scale
               - thickness_penalty
        overlap == 60 + (30 * balance_factor) \div Scale
    IN  [EQE |-> Num(Max2(eqe, 0)),
         recomb_overlap |-> Num(Min2(overlap, Scale)),
         penalty |-> Num(thickness_penalty)]

\* QLEDSimulator._mock_surrogate(design)
mock_surrogate(design) == mock_physics(design)

\* QLEDSimulator.evaluate(design) on a simulator built with the two flags
QLEDSimulator_evaluate(use_surrogate, use_comsol, design) ==
    IF use_comsol /\ "comsol_csv" \in DOMAIN design
    THEN parse_comsol_csv(design["comsol_csv"])
    ELSE IF use_surrogate THEN mock_surrogate(design)
    ELSE mock_physics(design)

\* -------------------------------------------------------- compute_reward
\* _clamp(x, lo, hi) = max(lo, min(hi, x)), the result an ordinary value
FClamp(a, lo, hi) ==
    IF a.h > 0 THEN hi ELSE IF a.h < 0 THEN lo ELSE Clip(a.v, lo, hi)

\* _safe_float(x, default): float(x) raising (None, a non-numeric object),
\* nan and +-inf all give the default; a finite float is kept
safe_float(x, default) ==
    IF x.t = "num" THEN x ELSE default

\* metrics.get(key, default)
MGet(metrics, key, default) ==
    IF key \in DOMAIN metrics THEN metrics[key] ELSE default

\* _log1p_norm(x, ref) = clamp(log1p(max(0, x)) / log1p(ref), 0, 2)
log1p_norm(a, ref) ==
    LET x == FMax0(a)
    IN  IF x.h > 0 THEN 2 * Scale
        ELSE Clip((Log2c(Scale + x.v) * Scale) \div Log2c(Scale + ref), 0, 2 * Scale)

\* the soft penalty with its sign reversed: -log1p
Log1pFloatNegated(a) ==
    IF a.h > 0 THEN -46052 ELSE -Ln1p(Max2(a.v, 0))

\* math.log1p of a float >= 0; log(1e200) = 460.52
Log1pFloat(a) ==
    IF a.h > 0 THEN 46052 + (Log2c(Max2(a.h, Scale)) * 6931) \div 10000
    ELSE Ln1p(Max2(a.v, 0))

\* x ** 2 leaves the range of a double (Python raises OverflowError)
SqOverflows(a) == a.t = "num" /\ a.h # 0
\* x ** 2 of an ordinary value
Sq(v) == (v * v) \div Scale

\* sum(max(0.0, _safe_float(v, 0.0)) for v in violation.values())
RECURSIVE SumPositive(_, _)
SumPositive(entries, keys) ==
    IF keys = {} THEN Num(0)
    ELSE LET k == CHOOSE kk \in keys : TRUE
         IN  FAdd(FMax0(safe_float(entries[k], Num(0))),
                  SumPositive(entries, keys \ {k}))

\* the constraint penalty of a violation (dict or scalar)
ConstraintPenalty(violation) ==
    IF violation.isdict
    THEN SumPositive(violation.entries, DOMAIN violation.entries)
    ELSE FMax0(safe_float(violation.scalar, Num(0)))

\* a gate that closes as its signal rises
GateInverted(sig) == 25 + (75 * (Scale - sig)) \div Scale

\* gate_floor + (1.0 - gate_floor) * s, gate_floor = 0.25
Gate(sig) == 25 + (75 * sig) \div Scale

\* reward = 10 * tanh(raw / 3.2)
BoundReward(raw) ==
    IF raw.h > 0 THEN 10 * Scale
    ELSE IF raw.h < 0 THEN -(10 * Scale)
    ELSE 10 * Tanh((raw.v * Scale) \div 320)

\* progress shaping without the None test: no previous utility counts as 0
ProgressDeltaFromZero(U, U_prev) ==
    IF U_prev.t = "None" THEN U ELSE FSub(U, U_prev)

\* progress shaping: dU = U - U_prev when a previous utility was injected
ProgressDelta(U, U_prev) ==
    IF U_prev.t = "None" THEN Num(0) ELSE FSub(U, U_prev)

\* compute_reward(metrics, violation): [raised, reward, info]
compute_reward(metrics, violation) ==
    LET zero == Num(0)
        eqe == safe_float(MGet(metrics, "EQE", zero), zero)
        overlap == FClamp(safe_float(MGet(metrics, "recomb_overlap", zero), zero), 0, Scale)
        balance == FClamp(safe_float(MGet(metrics, "inj_balance", zero), zero), 0, Scale)
        droop == FClamp(safe_float(MGet(metrics, "droop", Num(Scale)), Num(Scale)), 0, Scale)
        brightness == safe_float(MGet(metrics, "brightness", zero), zero)
        lifetime == safe_float(MGet(metrics, "lifetime", zero), zero)
        leakage == safe_float(MGet(metrics, "leakage", zero), zero)
        auger == safe_float(MGet(metrics, "auger_rate", MGet(metrics, "auger", zero)), zero)
        metric_penalty == safe_float(MGet(metrics, "penalty", zero), zero)
        \* shaping signals injected by the environment
        U_prev0 == MGet(metrics, "U_prev", NoneVal)
        U_prev == IF U_prev0.t = "None" THEN NoneVal ELSE safe_float(U_prev0, NoneVal)
        delta_params_norm == safe_float(MGet(metrics, "delta_params_norm", zero), zero)
        boundary_penalty == safe_float(MGet(metrics, "boundary_penalty", zero), zero)
        eml_thin_penalty == safe_float(MGet(metrics, "eml_thin_penalty", zero), zero)
        V_drive == safe_float(MGet(metrics, "V_drive", zero), zero)
        \* constraint penalty aggregation
        constraint_penalty == ConstraintPenalty(violation)
        total_penalty == FAdd(metric_penalty, constraint_penalty)
        pen_soft == Log1pFloat(FMax0(total_penalty))
        \* shaping
        overlap_s == SqrtC(overlap)
        balance_s == SqrtC(balance)
        eqe_s == log1p_norm(eqe, 3000)
        gate_overlap == Gate(overlap_s)
        gate_balance == Gate(balance_s)
        core == (((eqe_s * gate_overlap) \div Scale) * gate_balance) \div Scale
        bri_s == log1p_norm(brightness, 150000)
        life_s == log1p_norm(lifetime, 200000)
        leak_s == log1p_norm(leakage, Scale)
        auger_s == log1p_norm(auger, Scale)
        \* hinge operands, each squared by the code
        life_short == FMax0(FDiv(FSub(Num(80000), lifetime), 80000))
        bri_low == FMax0(FDiv(FSub(Num(70000), brightness), 70000))
        bri_high == FMax0(FDiv(FSub(brightness, Num(180000)), 180000))
        v_over == FMax0(FDiv(FSub(V_drive, Num(420)), 420))
        overflow == SqOverflows(delta_params_norm) \/ SqOverflows(life_short)
                    \/ SqOverflows(bri_low) \/ SqOverflows(bri_high)
                    \/ SqOverflows(v_over)
        jump_pen == Sq(delta_params_norm.v)
        low_overlap_pen == Sq(Max2(0, 45 - overlap))
        low_balance_pen == Sq(Max2(0, 40 - balance))
        low_droop_pen == Sq(Max2(0, 60 - droop))
        low_life_pen == Sq(life_short.v)
        bri_low_pen == Sq(bri_low.v)
        bri_high_pen == Sq(bri_high.v)
        v_high_pen == Sq(v_over.v)
        helper == (55 * overlap_s) \div Scale + (35 * balance_s) \div Scale
                  + (10 * bri_s) \div Scale + (18 * life_s) \div Scale
                  - (25 * leak_s) \div Scale - (25 * auger_s) \div Scale
                  + (3 * droop) \div Scale
        U_plain == (300 * core) \div Scale + helper
                   - (300 * low_overlap_pen) \div Scale
                   - (150 * low_balance_pen) \div Scale
                   - (400 * low_droop_pen) \div Scale
                   - (300 * low_life_pen) \div Scale
                   - (140 * (bri_low_pen + bri_high_pen)) \div Scale
                   - (120 * pen_soft) \div Scale
                   - (10 * jump_pen) \div Scale
                   - (40 * v_high_pen) \div Scale
        U == FSub(FSub(Num(U_plain), FScale(120, boundary_penalty)),
                  FScale(120, eml_thin_penalty))
        bonus == (IF overlap > 70 THEN 5 ELSE 0) + (IF balance > 80 THEN 3 ELSE 0)
                 + (IF FGt(lifetime, 90000) THEN 5 ELSE 0)
        \* the returned pair, from the utility uu on
        Returned(uu) ==
            LET dU == ProgressDelta(uu, U_prev)
                raw == FAdd(FAdd(uu, FScale(18, dU)), Num(bonus))
                reward == BoundReward(raw)
            IN  [raised |-> "", reward |-> reward,
                 info |-> [U |-> uu, dU |-> dU, bonus |-> Num(bonus), raw |-> raw,
                           reward |-> Num(reward), eqe |-> eqe, overlap |-> Num(overlap),
                           inj_balance |-> Num(balance), droop |-> Num(droop),
                           brightness |-> brightness, leakage |-> leakage,
                           auger_rate |-> auger, lifetime |-> lifetime,
                           V_drive |-> V_drive, delta_params_norm |-> delta_params_norm,
                           boundary_penalty |-> boundary_penalty,
                           eml_thin_penalty |-> eml_thin_penalty,
                           pen_soft |-> Num(pen_soft),
                           hinge |-> [target_overlap |-> Num(45), target_balance |-> Num(40),
                                      droop_floor |-> Num(60), life_floor |-> Num(80000),
                                      low_overlap_pen |-> Num(low_overlap_pen),
                                      low_balance_pen |-> Num(low_balance_pen),
                                      low_droop_pen |-> Num(low_droop_pen),
                                      low_life_pen |-> Num(low_life_pen),
                                      bri_low_pen |-> Num(bri_low_pen),
                                      bri_high_pen |-> Num(bri_high_pen)]]]
    IN  IF overflow
        THEN [raised |-> "OverflowError", reward |-> 0, info |-> << >>]
        ELSE Returned(U)

\* ------------------------------------------------------------ QLEDRLEnv
VARIABLES
    max_steps,        \* self.max_steps
    action_scale,     \* self.action_scale
    ps,               \* self.ps.params, the ParameterSpace in use
    include_metrics_in_obs,
    rng,              \* self.rng: [seed, n], n vectors drawn since seeding
    step_count,       \* self.step_count
    x,                \* self.x: the normalized vector, << >> for None
    last_metrics,     \* self.last_metrics, << >> for None
    U_prev,           \* self._U_prev
    prev_x,           \* self._prev_x, << >> for None
    ret,              \* what the last call returned, or the error it raised
    hist,             \* history: the last reset's arguments and the steps since
    probe             \* a pure function's input and result (SpecFn only)

vars == << max_steps, action_scale, ps, include_metrics_in_obs, rng, step_count,
           x, last_metrics, U_prev, prev_x, ret, hist, probe >>

None == << >>
NoSeed == 0 - 1

\* the configurations an environment is constructed with
Configs ==
    {[max_steps |-> m, action_scale |-> 5, ps |-> DefaultParams, include |-> FALSE,
      seed |-> 0] : m \in 1..MaxSteps}
    \cup
    {[max_steps |-> m, action_scale |-> 50, ps |-> WideParams, include |-> TRUE,
      seed |-> 1] : m \in 1..MaxSteps}

\* init_params mappings handed to reset
ParamsEdge ==
    [t_HTL_nm |-> 10000, t_EML_nm |-> 4000, t_ETL_nm |-> 6000, phi_HTL_eV |-> 520,
     phi_ETL_eV |-> 410, p_doping_HTL |-> 10, n_doping_ETL |-> 10,
     ps_radius_nm |-> 12000, ps_fill_frac |-> 25, sl_thickness_nm |-> 1500,
     sl_gap_um |-> 120, qd_coverage |-> 80, V_drive |-> 400]
ParamsOut ==
    [t_HTL_nm |-> 3000, t_EML_nm |-> 500, t_ETL_nm |-> 3000, phi_HTL_eV |-> 500,
     phi_ETL_eV |-> 430, p_doping_HTL |-> 0, n_doping_ETL |-> 30,
     ps_radius_nm |-> 30000, ps_fill_frac |-> 60, sl_thickness_nm |-> 1000,
     sl_gap_um |-> 10, qd_coverage |-> 50, V_drive |-> 700, note |-> 1]
ParamsMissing ==
    [k \in (DOMAIN ParamsEdge) \ {"V_drive"} |-> ParamsEdge[k]]

\* the (seed, options) pairs reset is called with
ResetArgs ==
    {<<NoSeed, None>>, <<0, None>>, <<1, None>>, <<NoSeed, ParamsEdge>>,
     <<0, ParamsOut>>, <<1, ParamsMissing>>}

\* action vectors handed to step (components may lie outside [-1, 1])
ActZero == [i \in 1..13 |-> 0]
ActMixed == [i \in 1..13 |-> IF i = 1 THEN 250 ELSE IF i = 2 THEN -300 ELSE 0]
Actions == {ActZero, ActMixed}

\* np.linalg.norm of a vector
Norm(v) == LET RECURSIVE SumSq(_)
               SumSq(i) == IF i = 0 THEN 0 ELSE v[i] * v[i] + SumSq(i - 1)
           IN  ISqrt(SumSq(Len(v)))

\* _build_obs: x, followed by metrics_to_vec(metrics) when metrics are included
build_obs(x_norm, metrics, include) ==
    IF include THEN x_norm \o metrics_to_vec(metrics) ELSE x_norm

NoReturn(op, err) ==
    [op |-> op, raised |-> err, obs |-> None, reward |-> 0, terminated |-> FALSE,
     truncated |-> FALSE, info |-> << >>]

\* the configuration and the mutable fields of one environment object
Cfg == [max_steps |-> max_steps, action_scale |-> action_scale, ps |-> ps,
        include |-> include_metrics_in_obs]
Env == [rng |-> rng, step_count |-> step_count, x |-> x, last_metrics |-> last_metrics,
        U_prev |-> U_prev, prev_x |-> prev_x]

\* the fields __init__ sets, for a generator seeded with s
Constructed(s) ==
    [rng |-> [seed |-> s, n |-> 0], step_count |-> 0, x |-> None,
     last_metrics |-> None, U_prev |-> NoneVal, prev_x |-> None]

\* reset's reseeding, skipped: the generator is left as it was
ReseedIgnored(rng0, seed) == rng0

\* if seed is not None: self.rng = np.random.default_rng(seed)
Reseed(rng0, seed) ==
    IF seed # NoSeed THEN [seed |-> seed, n |-> 0] ELSE rng0

\* reset's memory update, skipped: the memory of the episode before is kept
KeptMemory(e, xn) ==
    [U_prev |-> e.U_prev, prev_x |-> IF e.prev_x = None THEN xn ELSE e.prev_x]

\* self._U_prev = None; self._prev_x = self.x.copy()
ClearedMemory(e, xn) ==
    [U_prev |-> NoneVal, prev_x |-> xn]

\* reset(seed=seed, options=options); options is an init_params mapping or
\* None.  The generator is reseeded and the step counter zeroed before
\* to_normalized can raise.
reset(c, e, seed, options) ==
    LET rng1 == Reseed(e.rng, seed)
        given == options # None
        norm == IF given THEN to_normalized(c.ps, options)
                ELSE [raised |-> "", key |-> "", x |-> sample_normalized(c.ps, rng1)]
        rng2 == IF given THEN rng1 ELSE [rng1 EXCEPT !.n = @ + 1]
        params_real == to_real(c.ps, norm.x)
        memory == ClearedMemory(e, norm.x)
        \* what reset leaves and returns once the simulator has returned metrics
        Returned(metrics) ==
            [env |-> [rng |-> rng2, step_count |-> 0, x |-> norm.x,
                      last_metrics |-> metrics, U_prev |-> memory.U_prev,
                      prev_x |-> memory.prev_x],
             ret |-> [op |-> "reset", raised |-> "",
                      obs |-> build_obs(norm.x, metrics, c.include),
                      reward |-> 0, terminated |-> FALSE, truncated |-> FALSE,
                      info |-> [params |-> params_real, metrics |-> metrics]]]
    IN  IF norm.raised # ""
        THEN [env |-> [e EXCEPT !.rng = rng1, !.step_count = 0],
              ret |-> NoReturn("reset", norm.raised)]
        ELSE Returned(evaluate(params_real))

\* the move without either clip
MoveUnclipped(c, xv, action) ==
    [i \in 1..Len(xv) |-> xv[i] + (c.action_scale * action[i]) \div Scale]

\* np.clip(action, -1, 1), then x + action_scale * action, clipped to [-1, 1]
Move(c, xv, action) ==
    [i \in 1..Len(xv) |->
        Clip(xv[i] + (c.action_scale * Clip(action[i], -Scale, Scale)) \div Scale,
             -Scale, Scale)]

\* delta_params_norm that ignores the previous vector
DeltaParamsNormOfVector(xv, pv) == Norm(xv)

\* delta_params_norm: the distance to the previous vector, or the norm of
\* the vector itself when there is none
DeltaParamsNorm(xv, pv) ==
    IF pv = None THEN Norm(xv) ELSE Norm([i \in 1..Len(xv) |-> xv[i] - pv[i]])

\* boundary penalty: mean over the components of (max(0, |x| - 0.88) / 0.12) ^ 4
BoundaryPenalty(xv) ==
    LET RECURSIVE Sum4(_)
        Sum4(i) == IF i = 0 THEN 0
                   ELSE LET ex == (Max2(0, Abs(xv[i]) - 88) * Scale) \div 12
                        IN  Sq(Sq(ex)) + Sum4(i - 1)
    IN  Sum4(Len(xv)) \div Len(xv)

\* thin-EML penalty: max(0, (15 - t_EML) / 15) ^ 2, t_EML read with .get(.., 0.0)
EmlThinPenalty(params_real) ==
    LET t_eml == IF "t_EML_nm" \in DOMAIN params_real THEN params_real["t_EML_nm"] ELSE 0
    IN  Sq(Max2(0, ((1500 - t_eml) * Scale) \div 1500))

\* step's memory update with the utility left as it was
StaleMemory(e, info, xn) ==
    [U_prev |-> e.U_prev, prev_x |-> xn]

\* self._U_prev = reward_info.get("U", self._U_prev); self._prev_x = self.x.copy()
UpdatedMemory(e, info, xn) ==
    [U_prev |-> IF "U" \in DOMAIN info THEN info["U"] ELSE e.U_prev, prev_x |-> xn]

\* truncated one step late: > in place of >=
TruncatedLate(count, limit) == count > limit

\* truncated = self.step_count >= self.max_steps
Truncated(count, limit) == count >= limit

\* step(action).  The counter is advanced first; on an environment that was
\* never reset, self.x is None and x + action_scale * action raises TypeError.
step(c, e, action) ==
    LET count == e.step_count + 1
        xn == Move(c, e.x, action)
        params_real == to_real(c.ps, xn)
        violation == DictViolation(constraint_violation(params_real))
        metrics0 == evaluate(params_real)
        \* shaping signals injected for the reward
        metrics == [U_prev |-> e.U_prev,
                    delta_params_norm |-> Num(DeltaParamsNorm(xn, e.prev_x)),
                    boundary_penalty |-> Num(BoundaryPenalty(xn)),
                    eml_thin_penalty |-> Num(EmlThinPenalty(params_real)),
                    V_drive |-> Num(params_real["V_drive"])] @@ metrics0
        \* what step leaves and returns once compute_reward has returned r
        Returned(m, r) ==
            IF r.raised # ""
            THEN [env |-> [e EXCEPT !.step_count = count, !.x = xn],
                  ret |-> NoReturn("step", r.raised)]
            ELSE [env |-> [rng |-> e.rng, step_count |-> count, x |-> xn,
                           last_metrics |-> m,
                           U_prev |-> UpdatedMemory(e, r.info, xn).U_prev,
                           prev_x |-> UpdatedMemory(e, r.info, xn).prev_x],
                  ret |-> [op |-> "step", raised |-> "",
                           obs |-> build_obs(xn, m, c.include),
                           reward |-> r.reward,
                           terminated |-> is_hard_invalid(violation),
                           truncated |-> Truncated(count, c.max_steps),
                           info |-> r.info @@ [params |-> params_real, metrics |-> m,
                                               violation |-> violation.entries]]]
    IN  IF e.x = None
        THEN [env |-> [e EXCEPT !.step_count = count], ret |-> NoReturn("step", "TypeError")]
        ELSE Returned(metrics, compute_reward(metrics, violation))

\* history of the calls made on the environment (not program state):
\* reset: a reset has succeeded; clean: only steps have been called since;
\* seed, options, x0: that reset's arguments and the vector it produced;
\* acts: the actions stepped since; ended: a step since has returned
\* terminated or truncated; after_end: the last step was called when ended;
\* earlier: that reset came after at least one successful step;
\* x_before: the vector held when the last step was called; U_before: the U
\* the step before the last one reported (NoneVal when there was none)
NoHistory ==
    [reset |-> FALSE, clean |-> FALSE, seed |-> NoSeed, options |-> None,
     x0 |-> None, acts |-> << >>, ended |-> FALSE, after_end |-> FALSE,
     earlier |-> FALSE, x_before |-> None, U_before |-> NoneVal]

\* __init__ with configuration c
Construct(c) ==
    /\ max_steps = c.max_steps
    /\ action_scale = c.action_scale
    /\ ps = c.ps
    /\ include_metrics_in_obs = c.include
    /\ rng = Constructed(c.seed).rng
    /\ step_count = Constructed(c.seed).step_count
    /\ x = Constructed(c.seed).x
    /\ last_metrics = Constructed(c.seed).last_metrics
    /\ U_prev = Constructed(c.seed).U_prev
    /\ prev_x = Constructed(c.seed).prev_x
    /\ ret = NoReturn("init", "")
    /\ hist = NoHistory

Init ==
    /\ \E c \in Configs : Construct(c)
    /\ probe = << >>

SetEnv(e) ==
    /\ rng' = e.rng
    /\ step_count' = e.step_count
    /\ x' = e.x
    /\ last_metrics' = e.last_metrics
    /\ U_prev' = e.U_prev
    /\ prev_x' = e.prev_x

\* the environment and the history after a call of reset returned o
ResetDone(seed, options, o) ==
    /\ SetEnv(o.env)
    /\ ret' = o.ret
    /\ hist' = IF o.ret.raised # "" THEN [hist EXCEPT !.clean = FALSE]
               ELSE [reset |-> TRUE, clean |-> TRUE, seed |-> seed,
                     options |-> options, x0 |-> o.env.x, acts |-> << >>,
                     ended |-> FALSE, after_end |-> FALSE,
                     earlier |-> hist.earlier \/ hist.acts # << >>,
                     x_before |-> None, U_before |-> NoneVal]

\* a call of reset
Reset ==
    \E args \in ResetArgs :
        /\ (args[1] = NoSeed /\ args[2] = None) => rng.n < MaxDraws
        /\ ResetDone(args[1], args[2], reset(Cfg, Env, args[1], args[2]))
        /\ UNCHANGED << max_steps, action_scale, ps, include_metrics_in_obs, probe >>

\* the environment and the history after a call of step returned o
StepDone(action, o) ==
    /\ SetEnv(o.env)
    /\ ret' = o.ret
    /\ hist' = IF o.ret.raised # "" THEN [hist EXCEPT !.clean = FALSE]
               ELSE [hist EXCEPT !.acts = Append(@, action),
                                 !.ended = @ \/ o.ret.terminated \/ o.ret.truncated,
                                 !.after_end = hist.ended,
                                 !.x_before = x,
                                 !.U_before = IF ret.op = "step" /\ ret.raised = ""
                                              THEN ret.info["U"] ELSE NoneVal]

\* a call of step
Step ==
    \E action \in Actions :
        /\ step_count < max_steps + ExtraSteps
        /\ Len(hist.acts) < max_steps + ExtraSteps
        /\ StepDone(action, step(Cfg, Env, action))
        /\ UNCHANGED << max_steps, action_scale, ps, include_metrics_in_obs, probe >>

Next == Reset \/ Step

Spec == Init /\ [][Next]_vars

\* ------------------------------------------- the functions on their own
MaxMissing == 2

\* to_normalized inputs: ParamsOut (which carries an undeclared key) with
\* up to MaxMissing declared names removed, with and without the extra key
MissingSets == {M \in SUBSET NameSet(DefaultParams) : Cardinality(M) <= MaxMissing}
NormalizeInputs ==
    {[k \in (DOMAIN ParamsOut) \ (M \cup E) |-> ParamsOut[k]] :
        M \in MissingSets, E \in {{}, {"note"}}}

\* compute_reward inputs: a metrics mapping (empty, or what a step injects
\* at the centre of the default space) with one entry removed or replaced
\* by an object of each kind, and a violation of each shape
CentreMetrics ==
    [U_prev |-> Num(150), delta_params_norm |-> Num(18),
     boundary_penalty |-> Num(0), eml_thin_penalty |-> Num(0), V_drive |-> Num(400)]
    @@ evaluate(to_real(DefaultParams, ActZero))
RewardKeys ==
    {"EQE", "recomb_overlap", "inj_balance", "droop", "brightness", "lifetime",
     "leakage", "auger_rate", "auger", "penalty", "U_prev", "delta_params_norm",
     "boundary_penalty", "eml_thin_penalty", "V_drive"}
Objects ==
    {NoneVal, NaNVal, PosInf, NegInf, NonNumeric, Num(0), Num(-500), Num(50),
     Num(40000), Float(Scale, 0), Float(-Scale, 0)}
\* further finite values an entry takes: 0.01, 0.1, 0.45, 0.8
Levels == {Num(1), Num(10), Num(45), Num(80)}
\* metrics with the entry at key set to obj
WithEntry(m, key, obj) ==
    [k \in (DOMAIN m) \cup {key} |-> IF k = key THEN obj ELSE m[k]]
MetricsInputs ==
    {[k \in (DOMAIN base) \ {key} |-> base[k]] :
        base \in {<< >>, CentreMetrics}, key \in RewardKeys}
    \cup
    {WithEntry(base, key, obj) :
        base \in {<< >>, CentreMetrics}, key \in RewardKeys, obj \in Objects \cup Levels}
ViolationInputs ==
    {ScalarViolation(Num(0)), ScalarViolation(Num(-300)), ScalarViolation(NaNVal),
     ScalarViolation(Float(Scale, 0)), DictViolation(<< >>),
     DictViolation([a |-> Num(-500), b |-> NaNVal, c |-> Num(300)])}

\* round-trip inputs: in-range mappings (the centre of the space, a sampled
\* point) with one dimension set to a value on a grid of GridSteps steps
\* across [low, high], next to a bound, or outside the range
GridSteps == 4
ValuesOf(p) ==
    {p.low + (k * (p.high - p.low)) \div GridSteps : k \in 0..GridSteps}
    \cup {p.low + 1, p.high - 1}
    \cup {p.low - 1, p.high + 1, p.low - (p.high - p.low), p.high + (p.high - p.low)}
SampledVector == sample_normalized(DefaultParams, [seed |-> 0, n |-> 0])
RoundTripInputs ==
    UNION {{[base EXCEPT ![DefaultParams[i].name] = v] : v \in ValuesOf(DefaultParams[i])} :
              base \in {to_real(DefaultParams, ActZero),
                        to_real(DefaultParams, SampledVector)},
              i \in 1..Dim(DefaultParams)}

\* to_real inputs: vectors with one component at, next to, or beyond -1 / +1
Components == {-300, -Scale - 1, -Scale, 1 - Scale, 0, Scale - 1, Scale, Scale + 1, 250}
EdgeVector ==
    [i \in 1..13 |-> CASE i = 1 -> Scale [] i = 2 -> -Scale [] i = 3 -> 250
                        [] i = 4 -> -300 [] OTHER -> 0]
VectorInputs ==
    {[base EXCEPT ![i] = cv] :
        base \in {ActZero, SampledVector}, i \in 1..13, cv \in Components}
    \cup {EdgeVector}

\* sample_design(): ZnO_ratio in [0.3, 0.7), QD_layers in 1..3, thicknesses
\* in [15, 30) and [15, 35), bias_V in [2.5, 4.0)
SampledDesigns ==
    {[ZnO_ratio |-> r, QD_layers |-> q, HTL_thickness_nm |-> h,
      ZnO_thickness_nm |-> 1500, bias_V |-> b] :
        r \in {30, 40, 50, 60, 69}, q \in 1..3, h \in {1500, 2999},
        b \in {250, 350, 351, 399}}
\* a design that also names a COMSOL export
ComsolFile ==
    [n_electron |-> <<1, 2, 3>>, n_hole |-> <<3, 2, 0>>,
     R_rad |-> <<4, 4, 0>>, R_nrad |-> <<1, 0, 1>>]
ComsolDesign ==
    [ZnO_ratio |-> 50, QD_layers |-> 2, HTL_thickness_nm |-> 1500,
     ZnO_thickness_nm |-> 1500, bias_V |-> 399, comsol_csv |-> ComsolFile]
SimulatorInputs ==
    {[use_surrogate |-> us, use_comsol |-> uc, design |-> d] :
        us \in BOOLEAN, uc \in BOOLEAN, d \in SampledDesigns \cup {ComsolDesign}}

ProbeInputs ==
    {[fn |-> "QLEDSimulator.evaluate", done |-> FALSE, arg |-> a,
      viol |-> ScalarViolation(Num(0)), out |-> << >>] : a \in SimulatorInputs}
    \cup
    {[fn |-> "SurrogateSim.evaluate", done |-> FALSE, arg |-> to_real(DefaultParams, xv),
      viol |-> ScalarViolation(Num(0)), out |-> << >>] : xv \in VectorInputs}
    \cup
    {[fn |-> "to_normalized", done |-> FALSE, arg |-> d,
      viol |-> ScalarViolation(Num(0)), out |-> << >>] : d \in NormalizeInputs}
    \cup
    {[fn |-> "round_trip", done |-> FALSE, arg |-> d,
      viol |-> ScalarViolation(Num(0)), out |-> << >>] : d \in RoundTripInputs}
    \cup
    {[fn |-> "to_real", done |-> FALSE, arg |-> xv,
      viol |-> ScalarViolation(Num(0)), out |-> << >>] : xv \in VectorInputs}
    \cup
    {[fn |-> "compute_reward", done |-> FALSE, arg |-> m, viol |-> v, out |-> << >>] :
        m \in MetricsInputs, v \in ViolationInputs}

InitFn ==
    /\ Construct(CHOOSE c \in Configs : c.max_steps = 1 /\ c.seed = 0)
    /\ probe \in ProbeInputs

EnvUnchanged ==
    UNCHANGED << max_steps, action_scale, ps, include_metrics_in_obs, rng, step_count,
                 x, last_metrics, U_prev, prev_x, ret, hist >>

\* a call of ParameterSpace.to_normalized
ApplyToNormalized ==
    /\ probe.fn = "to_normalized" /\ ~probe.done
    /\ probe' = [probe EXCEPT !.done = TRUE, !.out = to_normalized(ps, probe.arg)]
    /\ EnvUnchanged

\* a call of compute_reward
ApplyComputeReward ==
    /\ probe.fn = "compute_reward" /\ ~probe.done
    /\ probe' = [probe EXCEPT !.done = TRUE, !.out = compute_reward(probe.arg, probe.viol)]
    /\ EnvUnchanged

\* a call of to_real on the result of to_normalized
ApplyRoundTrip ==
    /\ probe.fn = "round_trip" /\ ~probe.done
    /\ probe' = [probe EXCEPT !.done = TRUE,
                               !.out = to_real(ps, to_normalized(ps, probe.arg).x)]
    /\ EnvUnchanged

\* a call of ParameterSpace.to_real
ApplyToReal ==
    /\ probe.fn = "to_real" /\ ~probe.done
    /\ probe' = [probe EXCEPT !.done = TRUE, !.out = to_real(ps, probe.arg)]
    /\ EnvUnchanged

\* a call of QLEDSimulator(use_surrogate, use_comsol).evaluate
ApplySimulator ==
    /\ probe.fn = "QLEDSimulator.evaluate" /\ ~probe.done
    /\ probe' = [probe EXCEPT !.done = TRUE,
                               !.out = QLEDSimulator_evaluate(probe.arg.use_surrogate,
                                                              probe.arg.use_comsol,
                                                              probe.arg.design)]
    /\ EnvUnchanged

\* a call of SurrogateSim.evaluate
ApplyEvaluate ==
    /\ probe.fn = "SurrogateSim.evaluate" /\ ~probe.done
    /\ probe' = [probe EXCEPT !.done = TRUE, !.out = evaluate(probe.arg)]
    /\ EnvUnchanged

NextFn ==
    \/ ApplyToNormalized
    \/ ApplyComputeReward
    \/ ApplyRoundTrip
    \/ ApplyToReal
    \/ ApplySimulator
    \/ ApplyEvaluate

SpecFn == InitFn /\ [][NextFn]_vars

\* ---------------------------------------------------------------- claims
StepReturned == ret.op = "step" /\ ret.raised = ""
ResetReturned == ret.op = "reset" /\ ret.raised = ""
InRange(v) == \A i \in 1..Len(v) : -Scale <= v[i] /\ v[i] <= Scale

\* some severity of the violation reported by the last step exceeds 20.0
ReportedHardInvalid ==
    \E k \in DOMAIN ret.info.violation : ret.info.violation[k].v > HardThreshold

\* C1: a step called after a step has returned terminated or truncated, with
\* no reset in between, is rejected with an error.
C1_StepAfterEndRejected ==
    (ret.op = "step" /\ hist.after_end) => ret.raised # ""

\* C2: step on an environment that was never reset raises an error and
\* leaves the episode state as the constructor set it: step counter 0, no
\* normalized vector, empty shaping memory.
C2_StepBeforeResetLeavesState ==
    (ret.op = "step" /\ ~hist.reset) =>
        /\ ret.raised # ""
        /\ step_count = 0
        /\ x = None
        /\ U_prev = NoneVal
        /\ prev_x = None

C4_TruncationAtMaxSteps ==
    (StepReturned /\ hist.clean) =>
        LET k == Len(hist.acts)
        IN  /\ k < max_steps => ~ret.truncated
            /\ k = max_steps => ret.truncated
            /\ (k = max_steps /\ ~ReportedHardInvalid) => ~ret.terminated

\* the second step of a two-step episode: truncated, and not terminated
C4_Witness ==
    /\ StepReturned /\ hist.clean
    /\ Len(hist.acts) = max_steps /\ max_steps >= 2
    /\ ret.truncated /\ ~ret.terminated

\* C5: a step returns terminated = TRUE exactly when the violation computed
\* from the vector that same step produced has an entry strictly above
\* 20.0; a scalar violation is hard-invalid exactly when it is above 20.0.
C5_TerminatedIffHardInvalid ==
    /\ StepReturned =>
        /\ ret.info.violation = constraint_violation(to_real(ps, x))
        /\ ret.terminated <=> ReportedHardInvalid
    /\ \A s \in {HardThreshold - 1, HardThreshold, HardThreshold + 1} :
          is_hard_invalid(ScalarViolation(Num(s))) <=> (s > HardThreshold)

\* a step that terminates the episode although the step before did not
C5_Witness ==
    /\ StepReturned /\ hist.clean
    /\ ret.terminated /\ ~ret.truncated

\* a step whose largest severity is exactly 20.0, and which does not terminate
C5_BoundaryReached ==
    /\ StepReturned /\ ~ret.terminated
    /\ ret.info.violation["t_total_over_180nm"].v = HardThreshold

\* C6: whenever the environment holds a normalized vector, each of its
\* components lies in [-1, 1], and so does every returned observation.
C6_NormalizedInRange ==
    /\ x # None => (Len(x) = Dim(ps) /\ InRange(x))
    /\ (ret.raised = "" /\ ret.op # "init") => InRange(ret.obs)

\* a step whose action had components outside [-1, 1], ending on both faces
C6_Witness ==
    /\ StepReturned
    /\ hist.acts[Len(hist.acts)] = ActMixed
    /\ x[1] = Scale /\ x[2] = -Scale

\* the environment a reset leaves when it sets the vector x0
FreshAt(x0) ==
    [Constructed(0) EXCEPT !.x = x0, !.prev_x = x0]

\* C7: the first step after a reset is computed with no previous utility
\* (dU = 0) and a step distance measured from the vector the reset set; its
\* reward and diagnostics are those of the same step on a brand-new
\* environment started at that vector.
C7_NoMemoryAcrossEpisodes ==
    (StepReturned /\ hist.clean /\ Len(hist.acts) = 1) =>
        LET fresh == step(Cfg, FreshAt(hist.x0), hist.acts[1]).ret
        IN  /\ ret.info.metrics["U_prev"] = NoneVal
            /\ ret.info["dU"] = Num(0)
            /\ ret.info.metrics["delta_params_norm"] =
                  Num(Norm([i \in 1..Len(x) |-> x[i] - hist.x0[i]]))
            /\ ret.reward = fresh.reward
            /\ ret.info = fresh.info
            /\ ret.obs = fresh.obs

\* the first step of an episode that follows an episode with steps
C7_Witness ==
    /\ StepReturned /\ hist.clean /\ Len(hist.acts) = 1
    /\ hist.earlier
    /\ hist.acts[1] = ActMixed

\* the same calls made on a second, newly constructed environment
RECURSIVE ReplayFrom(_, _, _)
ReplayFrom(c, o, acts) ==
    IF acts = << >> THEN o
    ELSE ReplayFrom(c, step(c, o.env, Head(acts)), Tail(acts))
Replay ==
    ReplayFrom(Cfg, reset(Cfg, Constructed(NoSeed), hist.seed, hist.options),
               hist.acts)

\* C8: after a reset with a seed, the observation, reward, flags and info of
\* every call equal those of a second environment of the same configuration
\* reset with the same seed and driven by the same actions, whatever
\* episodes the first one ran before.
C8_Determinism ==
    (hist.clean /\ hist.seed # NoSeed) =>
        /\ ret = Replay.ret
        /\ x = Replay.env.x

\* two steps into a seeded episode that followed an earlier episode
C8_Witness ==
    /\ StepReturned /\ hist.clean /\ hist.seed # NoSeed
    /\ hist.earlier /\ Len(hist.acts) >= 2

\* C9: to_normalized raises KeyError whenever the mapping lacks a declared
\* name, whatever other keys it holds, and then returns no vector; with
\* every declared name present it returns one.
C9_MissingDimensionRaises ==
    (probe.fn = "to_normalized" /\ probe.done) =>
        LET missing == NameSet(ps) \ DOMAIN probe.arg
        IN  /\ missing # {} =>
                (probe.out.raised = "KeyError" /\ probe.out.x = None
                 /\ probe.out.key \in missing)
            /\ missing = {} => (probe.out.raised = "" /\ Len(probe.out.x) = Dim(ps))

\* a mapping with an unknown key that lacks only the twelfth dimension
C9_Witness ==
    /\ probe.fn = "to_normalized" /\ probe.done
    /\ NameSet(ps) \ DOMAIN probe.arg = {"qd_coverage"}
    /\ "note" \in DOMAIN probe.arg
    /\ probe.out.raised = "KeyError"

\* C10: compute_reward returns, for every metrics mapping and violation,
\* without raising: a reward in [-10, 10] and diagnostics holding the key U.
C10_RewardTotalAndBounded ==
    (probe.fn = "compute_reward" /\ probe.done) =>
        /\ probe.out.raised = ""
        /\ -(10 * Scale) <= probe.out.reward /\ probe.out.reward <= 10 * Scale
        /\ "U" \in DOMAIN probe.out.info

\* a < b and a <= b on finite floats
FLess(a, b) == a.h < b.h \/ (a.h = b.h /\ a.v < b.v)
FLeq(a, b) == a.h < b.h \/ (a.h = b.h /\ a.v <= b.v)

\* compute_reward has returned for the probed input
RewardReturned == probe.fn = "compute_reward" /\ probe.done /\ probe.out.raised = ""
\* the probed metrics hold a finite entry at key
FiniteAt(key) == key \in DOMAIN probe.arg /\ probe.arg[key].t = "num"
\* finite values >= 0
NonNegLevels == {o \in Objects \cup Levels : o.t = "num" /\ ~FLt(o, 0)}

C12_EfficiencyMonotone ==
    (RewardReturned /\ FiniteAt("EQE") /\ FiniteAt("recomb_overlap")) =>
        \A e2 \in Levels \cup {probe.arg["EQE"]},
           o2 \in Levels \cup {probe.arg["recomb_overlap"]} :
            (FLeq(probe.arg["EQE"], e2) /\ FLeq(probe.arg["recomb_overlap"], o2)) =>
                compute_reward(WithEntry(WithEntry(probe.arg, "EQE", e2),
                                         "recomb_overlap", o2), probe.viol).reward
                    >= probe.out.reward

\* the centre metrics with overlap 0.1: overlap 0.8 alone, and overlap 0.8
\* with EQE 0.8, each give a strictly larger reward
C12_Witness ==
    /\ RewardReturned /\ FiniteAt("EQE") /\ FiniteAt("recomb_overlap")
    /\ probe.arg["recomb_overlap"] = Num(10)
    /\ probe.arg["EQE"] = CentreMetrics["EQE"]
    /\ compute_reward(WithEntry(probe.arg, "recomb_overlap", Num(80)), probe.viol).reward
          > probe.out.reward

\* the physical width of one step of the normalized grid, plus one unit of
\* the physical grid: the rounding a round trip can lose
RoundTripTol(p) == (p.high - p.low) \div (2 * Scale) + 1

\* C13: to_real(to_normalized(params))[name] equals params[name] within the
\* rounding tolerance for every value inside [low, high], and is the nearest
\* bound for a value outside it.
C13_RoundTrip ==
    (probe.fn = "round_trip" /\ probe.done) =>
        \A i \in 1..Dim(ps) :
            LET p == ps[i]
                v == probe.arg[p.name]
                back == probe.out[p.name]
            IN  /\ (p.low <= v /\ v <= p.high) => Abs(back - v) <= RoundTripTol(p)
                /\ v < p.low => back = p.low
                /\ v > p.high => back = p.high

\* sl_gap_um a quarter of the way up its range, met again within tolerance
C13_Witness ==
    /\ probe.fn = "round_trip" /\ probe.done
    /\ probe.arg["sl_gap_um"] = 30 + (500 - 30) \div GridSteps
    /\ Abs(probe.out["sl_gap_um"] - probe.arg["sl_gap_um"]) <= RoundTripTol(ps[11])
    /\ probe.out["V_drive"] = probe.arg["V_drive"]

\* a round trip of a value above its range, which comes back as the high bound
C13_OutsideReached ==
    /\ probe.fn = "round_trip" /\ probe.done
    /\ probe.arg["V_drive"] > 600 /\ probe.out["V_drive"] = 600

\* C14: to_real returns one value per declared dimension, each within
\* [low, high]; a component <= -1 gives exactly low, a component >= +1
\* exactly high.
C14_ToRealBounds ==
    (probe.fn = "to_real" /\ probe.done) =>
        /\ DOMAIN probe.out = NameSet(ps)
        /\ \A i \in 1..Dim(ps) :
              LET p == ps[i]
                  val == probe.out[p.name]
              IN  /\ p.low <= val /\ val <= p.high
                  /\ probe.arg[i] <= -Scale => val = p.low
                  /\ probe.arg[i] >= Scale => val = p.high

\* components +1, -1, 2.5 and -3.0 mapped to high, low, high and low
C14_Witness ==
    /\ probe.fn = "to_real" /\ probe.done /\ probe.arg = EdgeVector
    /\ probe.out["t_HTL_nm"] = 6000 /\ probe.out["t_EML_nm"] = 1000
    /\ probe.out["t_ETL_nm"] = 6000 /\ probe.out["phi_HTL_eV"] = 480

\* the minimum MetricsRecord: EQE, an overlap in [0, 1], a penalty >= 0
MinimumRecord(m) ==
    /\ {"EQE", "recomb_overlap", "penalty"} \subseteq DOMAIN m
    /\ m["EQE"].t = "num"
    /\ m["recomb_overlap"].t = "num"
    /\ 0 <= m["recomb_overlap"].v /\ m["recomb_overlap"].v <= Scale
    /\ m["penalty"].t = "num" /\ m["penalty"].v >= 0

\* C15: on a sampled design, QLEDSimulator.evaluate without a COMSOL file
\* returns the mock-physics result whatever the surrogate flag, and that
\* result, like SurrogateSim.evaluate on in-bounds parameters, holds the
\* minimum MetricsRecord.
C15_MinimumMetrics ==
    /\ (probe.fn = "QLEDSimulator.evaluate" /\ probe.done
        /\ "comsol_csv" \notin DOMAIN probe.arg.design) =>
            /\ MinimumRecord(probe.out)
            /\ probe.out = mock_physics(probe.arg.design)
    /\ (probe.fn = "SurrogateSim.evaluate" /\ probe.done) => MinimumRecord(probe.out)

\* surrogate mode on a sampled design with the bias above 3.5 V
C15_Witness ==
    /\ probe.fn = "QLEDSimulator.evaluate" /\ probe.done
    /\ probe.arg.use_surrogate /\ probe.arg.design \in SampledDesigns
    /\ probe.arg.design["bias_V"] = 399
    /\ probe.out["penalty"].v >= 0 /\ probe.out["recomb_overlap"].v > 60

\* C16: after every step the stored previous utility is the U of that step's
\* diagnostics and the stored previous vector is the current vector; within
\* an episode the U_prev injected at step k >= 2 is the U reported at step
\* k - 1 and dU is the difference of the two, while at step 1 dU is 0.
C16_MemoryThreaded ==
    StepReturned =>
        /\ U_prev = ret.info["U"]
        /\ prev_x = x
        /\ (hist.clean /\ Len(hist.acts) = 1) =>
              (ret.info.metrics["U_prev"] = NoneVal /\ ret.info["dU"] = Num(0))
        /\ (hist.clean /\ Len(hist.acts) >= 2) =>
              /\ hist.U_before # NoneVal
              /\ ret.info.metrics["U_prev"] = hist.U_before
              /\ ret.info["dU"] = FSub(ret.info["U"], hist.U_before)

\* a second step whose utility differs from that of the first
C16_Witness ==
    /\ StepReturned /\ hist.clean /\ Len(hist.acts) = 2
    /\ ret.info["dU"] # Num(0)
    /\ U_prev = ret.info["U"]

\* action_scale * clip(action, -1, 1)
ScaledAction(a) ==
    [i \in 1..Len(a) |-> (action_scale * Clip(a[i], -Scale, Scale)) \div Scale]
LastAction == hist.acts[Len(hist.acts)]

C17_UnclippedReached ==
    /\ StepReturned /\ hist.clean /\ Len(hist.acts) = 1 /\ LastAction = ActMixed
    /\ ret.info.metrics["delta_params_norm"] = Num(Norm(ScaledAction(LastAction)))

\* C18: with the default ParameterSpace no step returns terminated = TRUE:
\* the stack severity is 0, the fill-fraction excess at most 0.05, the gap
\* shortfall at most 0.2, the voltage excess at most 0.5; an episode ends
\* only by truncation, on its max_steps-th step.
C18_DefaultSpaceNeverTerminates ==
    (StepReturned /\ ps = DefaultParams) =>
        /\ ~ret.terminated
        /\ ret.info.violation["t_total_over_180nm"].v = 0
        /\ ret.info.violation["ps_fill_frac_over_0p45"].v <= 5
        /\ ret.info.violation["sl_gap_under_0p5um"].v <= 20
        /\ ret.info.violation["V_drive_over_5p5V"].v <= 50
        /\ \A k \in DOMAIN ret.info.violation : ret.info.violation[k].v < HardThreshold
        /\ (hist.clean /\ Len(hist.acts) < max_steps) => ~ret.truncated
        /\ (hist.clean /\ Len(hist.acts) = max_steps) => ret.truncated

\* the last step of an episode in the default space, every severity but the
\* stack's at its largest
C18_Witness ==
    /\ StepReturned /\ ps = DefaultParams /\ hist.clean
    /\ Len(hist.acts) = max_steps
    /\ ret.truncated /\ ~ret.terminated
    /\ ret.info.violation["ps_fill_frac_over_0p45"].v = 5
    /\ ret.info.violation["sl_gap_under_0p5um"].v = 20
    /\ ret.info.violation["V_drive_over_5p5V"].v = 50

\* C19: a reset that raises because init_params lacks a declared dimension
\* leaves the step counter, the normalized vector, the generator and the
\* shaping memory as they were before the call.
C19_FailedResetLeavesState ==
    [][(ret'.op = "reset" /\ ret'.raised = "KeyError") =>
          /\ step_count' = step_count
          /\ x' = x
          /\ rng' = rng
          /\ U_prev' = U_prev
          /\ prev_x' = prev_x]_vars

====
